---- MODULE Spec2Model ----
(***************************************************************************)
(* Peer-verified fingerprint consensus pipeline of QuantumSync:            *)
(*   - ConfidenceAggregator (backend/verification/confidence.ts)           *)
(*   - MeshTransportManager and FingerprintCoordinator                     *)
(*     (backend/mesh/transport.ts)                                         *)
(*   - MainsHumExtractor (backend/fingerprint/mains-hum.ts)                *)
(*   - TamperDetectionAnalyzer (backend/verification/confidence.ts)        *)
(*   - MediaSharingFramework.publishMedia (orchestrator)                   *)
(*                                                                         *)
(* Numbers.  Confidence scores are IEEE doubles in [0,1]; here a score is  *)
(* an integer number of hundredths (Scale).  Means and deviations are kept *)
(* exact: for n values with sum S the deviation of v from the mean is      *)
(* (n*v - S) / (n*Scale), and a standard deviation is kept as the sum SS   *)
(* of the squared numerators (stdDev^2 = SS / (n^3 * Scale^2)).  Every     *)
(* comparison of the code is then an integer comparison.  Where the two    *)
(* sides are exactly equal, the rounding of the double arithmetic decides  *)
(* the comparison in the code (0.7+0.7+0.7)/3 >= 0.7 is false), so the     *)
(* model lets such a comparison come out either way.                       *)
(***************************************************************************)
EXTENDS Integers, Sequences, FiniteSets, TLC

(* ---------------------------- bounds ----------------------------------- *)
MaxReports == 4
MaxClusterReports == 6
MaxPeers == 3
MaxClock == 1
MaxVector == 3
MaxCount == 3

(* ------------------------ program constants ---------------------------- *)
Scale == 100
DefaultOutlierThresholdHalves == 4
DefaultMinPeers == 3
HighCvTenths == 1
MediumCvTenths == 3
HighScorePct == 70
MediumScorePct == 50
LowScorePct == 30
HighOutlierRatioTenths == 3
HighDeviationPct == 30
DefaultMinPeerReports == 3

VARIABLES
    reports,      \* the PeerReport[] handed to aggregate
    options,      \* the options argument of aggregate
    scorePool,    \* confidence scores peers may report (hundredths)
    sigPool,      \* kinds of signature the reports may carry
    maxBatch,     \* how many reports the caller collects at most
    aggResult,    \* what aggregate returned or threw
    \* MeshTransportManager
    isDiscovering,    \* this.isDiscovering
    discoveredPeers,  \* this.discoveredPeers: peer ids in insertion order
    activePeers,      \* this.activePeers: ids with a connection object
    pendingTimers,    \* per transport, the discovery timers not yet fired
    responsive,       \* peers whose response to a request ever arrives
    lastSeen,         \* MeshPeer.lastSeen of each discovered peer
    now,              \* the wall clock, in staleness windows elapsed
    lastCall,         \* the most recent call into the transport manager
    emitted,          \* the events that call handed to emit()
    \* FingerprintCoordinator.requestComparisons
    rcPc,             \* where the call is: idle, loop, send, transmit,
                      \* wait, done (returned), failed (threw)
    rcPeers,          \* const peers = getDiscoveredPeers()
    rcIdx,            \* position of the for-loop in peers
    rcReports,        \* const reports: the peers whose report was pushed
    rcFailed,         \* peers whose iteration ended in the catch block
    rcSignatures,     \* signature of the message each pushed report came in
    \* FingerprintCoordinator.handleFingerprintRequest
    handlerResult,    \* the last request handled and what came of it
    \* MainsHumExtractor
    audioLength,      \* audioData.length of the recording handed to extract
    sampleRate,       \* the sampleRate argument of extract
    fpConfig,         \* this.config of the extractor
    extractResult,    \* what extract returned or threw
    fingerprint1,     \* first argument of compare
    fingerprint2,     \* second argument of compare
    comparison,       \* what compare returned
    \* TamperDetectionAnalyzer
    aggregation,      \* the ConfidenceAggregation handed to analyzeTampering
    tamperAnalysis,   \* what analyzeTampering returned
    \* a second aggregate call, on the same reports in another order
    permReports,      \* the rearranged PeerReport[]
    permResult,       \* what aggregate returned for it
    \* MediaSharingFramework.publishMedia
    pubPc,            \* where the call is: idle, upload, collect, verify,
                      \* finish, done (returned), failed (threw)
    pubOptions,       \* requestPeerVerification and minPeerReports
    peerReports,      \* what requestComparisons returned, or that it threw
    aggregatedConfidence, \* let aggregatedConfidence
    pubTamperAnalysis,    \* let tamperAnalysis
    pubResult         \* the PublicationResult

aggVars == <<reports, options, scorePool, sigPool, maxBatch, aggResult>>
transportVars ==
    <<isDiscovering, discoveredPeers, activePeers, pendingTimers, responsive,
      lastSeen, now, lastCall, emitted>>
rcVars == <<rcPc, rcPeers, rcIdx, rcReports, rcFailed, rcSignatures>>
meshVars == <<transportVars, rcVars, handlerResult>>
fpVars ==
    <<audioLength, sampleRate, fpConfig, extractResult, fingerprint1,
      fingerprint2, comparison>>
tamperVars == <<aggregation, tamperAnalysis>>
orderVars == <<permReports, permResult>>
pubVars ==
    <<pubPc, pubOptions, peerReports, aggregatedConfidence,
      pubTamperAnalysis, pubResult>>
vars == <<aggVars, meshVars, fpVars, tamperVars, orderVars, pubVars>>

(* --------------------------- helpers ----------------------------------- *)
RECURSIVE Sum(_)
Sum(values) ==
    IF values = <<>> THEN 0 ELSE Head(values) + Sum(Tail(values))

Count(s, Test(_)) == Len(SelectSeq(s, Test))

\* The outcomes a comparison a >= b of two computed doubles can have:
\* when the exact values are equal, rounding decides.
GeOutcomes(a, b) ==
    IF a = b THEN {TRUE, FALSE} ELSE {a >= b}

\* The outcomes a comparison a < b of two computed doubles can have.
LtOutcomes(a, b) ==
    IF a = b THEN {TRUE, FALSE} ELSE {a < b}

(* ----------------------- ConfidenceAggregator --------------------------- *)
\* A signature is kept as what it was made over and the key it verifies
\* under; Malformed stands for bytes the verifier cannot parse.
Malformed ==
    [parses |-> FALSE,
     message |-> [mediaItemId |-> "", confidenceScore |-> 0, timestamp |-> 0],
     publicKey |-> 0]

\* crypto.verify(message, signature, publicKey): "valid" (true), "invalid"
\* (false) or "throws", decided by its three arguments alone.
cryptoVerify(message, signature, publicKey) ==
    IF ~signature.parses THEN "throws"
    ELSE IF signature.message = message /\ signature.publicKey = publicKey
         THEN "valid"
         ELSE "invalid"

\* Variant: the reporting peer's identifier is part of the canonical form.
serializeReportForSigningWithPeer(report) ==
    [mediaItemId |-> report.mediaItemId,
     confidenceScore |-> report.confidenceScore,
     timestamp |-> report.timestamp,
     peerEphemeralId |-> report.peerEphemeralId]

\* serializeReportForSigning: the canonical form that is signed.
serializeReportForSigning(report) ==
    [mediaItemId |-> report.mediaItemId,
     confidenceScore |-> report.confidenceScore,
     timestamp |-> report.timestamp]

\* What crypto.verify makes of one report, as verifyReportSignatures
\* calls it.
VerifyOutcome(report) ==
    cryptoVerify(serializeReportForSigning(report), report.signature,
                 report.ephemeralPubKey)

\* Variant: the result of crypto.verify is not looked at.
RECURSIVE verifyReportSignaturesKeepInvalid(_)
verifyReportSignaturesKeepInvalid(rs) ==
    IF rs = <<>> THEN <<>>
    ELSE LET report == Head(rs)
             rest   == verifyReportSignaturesKeepInvalid(Tail(rs))
         IN  CASE VerifyOutcome(report) = "valid"   -> <<report>> \o rest
               [] VerifyOutcome(report) = "invalid" -> <<report>> \o rest
               [] VerifyOutcome(report) = "throws"  -> rest

\* crypto.verify per report: "valid" (true), "invalid" (false), "throws".
RECURSIVE verifyReportSignatures(_)
verifyReportSignatures(rs) ==
    IF rs = <<>> THEN <<>>
    ELSE LET report == Head(rs)
             rest   == verifyReportSignatures(Tail(rs))
         IN  CASE VerifyOutcome(report) = "valid"   -> <<report>> \o rest
               [] VerifyOutcome(report) = "invalid" -> rest
               [] VerifyOutcome(report) = "throws"  -> rest

\* Variant: the sum is not divided by the number of values.
computeMeanNoDivide(values) ==
    IF Len(values) = 0 THEN [num |-> 0, den |-> 1]
    ELSE [num |-> Sum(values), den |-> 1]

\* mean = num / (den * Scale)
computeMean(values) ==
    IF Len(values) = 0 THEN [num |-> 0, den |-> 1]
    ELSE [num |-> Sum(values), den |-> Len(values)]

\* Numerator of (val - mean): (val - mean) = Dev(val, mean) / (mean.den * Scale)
Dev(val, mean) == val * mean.den - mean.num

\* stdDev^2 = ss / (n * mean.den^2 * Scale^2)
computeStdDev(values, mean) ==
    IF Len(values) = 0 THEN [ss |-> 0, n |-> 1]
    ELSE [ss |-> Sum([i \in 1..Len(values) |->
                        Dev(values[i], mean) * Dev(values[i], mean)]),
          n  |-> Len(values)]

\* zScore > threshold, as -1 (below), 0 (exactly equal), 1 (above);
\* threshold is in halves.  zScore^2 = Dev^2 * n / ss.
ZScoreCmp(val, mean, stdDev, threshold) ==
    IF stdDev.ss > 0
    THEN LET lhs == Dev(val, mean) * Dev(val, mean) * stdDev.n * 4
             rhs == threshold * threshold * stdDev.ss
         IN  IF lhs > rhs THEN 1 ELSE IF lhs = rhs THEN 0 ELSE -1
    ELSE -1

\* Scores whose z-score equals the threshold exactly.
TieScores(values, mean, stdDev, threshold) ==
    {values[i] : i \in {j \in 1..Len(values) :
                          ZScoreCmp(values[j], mean, stdDev, threshold) = 0}}

\* Variant: a report is flagged from one standard deviation on, whatever
\* the threshold passed in.
detectOutliersOneSigma(values, mean, stdDev, threshold, up) ==
    [i \in 1..Len(values) |->
        ZScoreCmp(values[i], mean, stdDev, 2) = 1]

\* up: the tie scores whose computed z-score rounds above the threshold.
detectOutliers(values, mean, stdDev, threshold, up) ==
    [i \in 1..Len(values) |->
        LET c == ZScoreCmp(values[i], mean, stdDev, threshold)
        IN  c = 1 \/ (c = 0 /\ values[i] \in up)]

\* Variant: the level is read off the coefficient of variation alone.
assessConsensusCvOnly(scores, aggregatedScore) ==
    IF Len(scores) = 0 THEN {"low"}
    ELSE LET mean   == computeMean(scores)
             stdDev == computeStdDev(scores, mean)
             CvLt(p) == mean.num > 0
                        /\ 100 * stdDev.ss
                              < p * p * stdDev.n * mean.num * mean.num
         IN  { IF CvLt(HighCvTenths) THEN "high"
               ELSE IF CvLt(MediumCvTenths) THEN "medium"
               ELSE "low" }

\* Variant: below cv 0.3 the level is at least 'medium', whatever the score.
assessConsensusMediumByCv(scores, aggregatedScore) ==
    IF Len(scores) = 0 THEN {"low"}
    ELSE LET mean   == computeMean(scores)
             stdDev == computeStdDev(scores, mean)
             CvLt(p) == mean.num > 0
                        /\ 100 * stdDev.ss
                              < p * p * stdDev.n * mean.num * mean.num
             ScoreGe(p) == aggregatedScore.num * 100
                              >= p * aggregatedScore.den * Scale
         IN  { IF CvLt(HighCvTenths) /\ ScoreGe(HighScorePct) THEN "high"
               ELSE IF CvLt(MediumCvTenths) THEN "medium"
               ELSE "low" }

\* Scores for which the doubles computeMean produces are tabulated below.
OrderScores == {65, 70, 75}

\* Lists of two to four OrderScores whose exact mean is 0.7.
KnownDoubles(values) ==
    /\ Len(values) \in 2..4
    /\ \A i \in 1..Len(values) : values[i] \in OrderScores
    /\ Sum(values) = HighScorePct * Len(values)

\* computeMean adds from left to right and then divides.  For the lists of
\* KnownDoubles the result is the double 0.7 or 0.7000000000000001,
\* except that ((a + b) + 0.7) / 3 is 0.6999999999999998.
computeMeanRoundsBelow(values) ==
    Len(values) = 3 /\ values[3] = HighScorePct

\* The set of levels assessConsensus can return.
assessConsensus(scores, aggregatedScore) ==
    IF Len(scores) = 0 THEN {"low"}
    ELSE LET mean   == computeMean(scores)
             stdDev == computeStdDev(scores, mean)
             \* cv = mean > 0 ? stdDev / mean : 1
             \* cv < p/10  <=>  100 * ss < p^2 * n * num^2   (mean > 0)
             CvLt(p) == IF mean.num > 0
                        THEN LtOutcomes(100 * stdDev.ss,
                                        p * p * stdDev.n * mean.num * mean.num)
                        ELSE {FALSE}
             \* aggregatedScore >= p/100
             \* (aggregatedScore is the computed mean of scores)
             ScoreGe(p) ==
                 IF aggregatedScore.num * 100 = p * aggregatedScore.den * Scale
                       /\ KnownDoubles(scores)
                 THEN {~computeMeanRoundsBelow(scores)}
                 ELSE GeOutcomes(aggregatedScore.num * 100,
                                 p * aggregatedScore.den * Scale)
         IN  { IF c1 /\ s1 THEN "high"
               ELSE IF c2 /\ s2 THEN "medium"
               ELSE "low" :
               <<c1, s1, c2, s2>> \in
                   CvLt(HighCvTenths) \X ScoreGe(HighScorePct)
                   \X CvLt(MediumCvTenths) \X ScoreGe(MediumScorePct) }

NoResult ==
    [status |-> "none", count |-> 0, required |-> 0,
     aggregatedScore |-> [num |-> 0, den |-> 1], reportCount |-> 0,
     outlierCount |-> 0, standardDeviation |-> [ss |-> 0, n |-> 1],
     consensusLevel |-> "low", peerScores |-> <<>>]

InsufficientReports(count, required) ==
    [NoResult EXCEPT !.status = "error", !.count = count,
                     !.required = required]

\* Variant: the minimum is enforced on the signature-valid reports.
insufficientAfterFiltering(rs, opts) ==
    Len(IF opts.verifySignatures THEN verifyReportSignatures(rs) ELSE rs)
        < opts.minPeers

\* Variant: a list none of whose signatures verifies is refused as well.
insufficientOrNoneValid(rs, opts) ==
    \/ Len(rs) < opts.minPeers
    \/ opts.verifySignatures /\ verifyReportSignatures(rs) = <<>>

\* "Validate minimum reports": made on the list as passed in.
insufficient(rs, opts) == Len(rs) < opts.minPeers

\* Variant: reportCount counts every report that passed verification.
aggregateCountAll(rs, opts) ==
    IF insufficient(rs, opts)
    THEN {InsufficientReports(Len(rs), opts.minPeers)}
    ELSE LET valid  == IF opts.verifySignatures
                       THEN verifyReportSignatures(rs) ELSE rs
             scores == [i \in 1..Len(valid) |-> valid[i].confidenceScore]
             mean   == computeMean(scores)
             stdDev == computeStdDev(scores, mean)
             ties   == TieScores(scores, mean, stdDev, opts.outlierThreshold)
         IN  UNION {
               LET outlierMask == detectOutliers(scores, mean, stdDev,
                                        opts.outlierThreshold, up)
                   kept == {i \in 1..Len(scores) : ~outlierMask[i]}
                   filteredScores ==
                       SelectSeq(
                         [i \in 1..Len(scores) |->
                            IF outlierMask[i] THEN -1 ELSE scores[i]],
                         LAMBDA v : v >= 0)
                   aggregatedScore == computeMean(filteredScores)
               IN  { [status |-> "ok", count |-> Len(rs),
                      required |-> opts.minPeers,
                      aggregatedScore |-> aggregatedScore,
                      reportCount |-> Len(valid),
                      outlierCount |->
                          Cardinality({i \in 1..Len(scores) : outlierMask[i]}),
                      standardDeviation |-> stdDev,
                      consensusLevel |-> level,
                      peerScores |->
                          [i \in 1..Len(valid) |->
                             [peerId |-> valid[i].peerEphemeralId,
                              score |-> valid[i].confidenceScore,
                              included |-> ~outlierMask[i]]]] :
                     level \in assessConsensus(filteredScores,
                                               aggregatedScore) } :
               up \in SUBSET ties }

\* The set of outcomes of aggregate(reports, options).
aggregate(rs, opts) ==
    IF insufficient(rs, opts)
    THEN {InsufficientReports(Len(rs), opts.minPeers)}
    ELSE LET valid  == IF opts.verifySignatures
                       THEN verifyReportSignatures(rs) ELSE rs
             scores == [i \in 1..Len(valid) |-> valid[i].confidenceScore]
             mean   == computeMean(scores)
             stdDev == computeStdDev(scores, mean)
             ties   == TieScores(scores, mean, stdDev, opts.outlierThreshold)
         IN  UNION {
               LET outlierMask == detectOutliers(scores, mean, stdDev,
                                        opts.outlierThreshold, up)
                   kept == {i \in 1..Len(scores) : ~outlierMask[i]}
                   filteredScores ==
                       SelectSeq(
                         [i \in 1..Len(scores) |->
                            IF outlierMask[i] THEN -1 ELSE scores[i]],
                         LAMBDA v : v >= 0)
                   aggregatedScore == computeMean(filteredScores)
               IN  { [status |-> "ok", count |-> Len(rs),
                      required |-> opts.minPeers,
                      aggregatedScore |-> aggregatedScore,
                      reportCount |-> Cardinality(kept),
                      outlierCount |->
                          Cardinality({i \in 1..Len(scores) : outlierMask[i]}),
                      standardDeviation |-> stdDev,
                      consensusLevel |-> level,
                      peerScores |->
                          [i \in 1..Len(valid) |->
                             [peerId |-> valid[i].peerEphemeralId,
                              score |-> valid[i].confidenceScore,
                              included |-> ~outlierMask[i]]]] :
                     level \in assessConsensus(filteredScores,
                                               aggregatedScore) } :
               up \in SUBSET ties }

(* --------------------------- inputs ------------------------------------ *)
DefaultOptions ==
    [outlierThreshold |-> DefaultOutlierThresholdHalves,
     minPeers |-> DefaultMinPeers, verifySignatures |-> TRUE]

OptionSets ==
    {DefaultOptions,
     [DefaultOptions EXCEPT !.outlierThreshold = 3],
     [DefaultOptions EXCEPT !.minPeers = 2],
     [DefaultOptions EXCEPT !.verifySignatures = FALSE]}

SigOutcomes == {"valid", "invalid", "throws"}
GeneralScores == {0, 50, 100}
\* agreeing peers that all report a poor match
LowScores == {20, 25}
\* scores none of which sits on a threshold of assessConsensus
ConsensusScores == {40, 60, 100}
\* The five-peer scenario {0.95, 0.94, 0.96, 0.05, 0.97}.
ScenarioScores == {5, 94, 95, 96, 97}
\* One report of 0.0 among reports clustered near 0.95.
ClusterScores == {94, 95, 96}
ZeroClusterScores == {0} \cup ClusterScores

ClusterOptionSets ==
    {DefaultOptions, [DefaultOptions EXCEPT !.minPeers = 2]}

\* A key no reporting peer holds.
ForeignKey == 0

\* The signature a peer attaches: made over the canonical form of its
\* report under its own key ("valid"), made under another key
\* ("invalid"), or unparseable ("throws").
SignatureOfKind(kind, unsigned) ==
    CASE kind = "valid" ->
           [parses |-> TRUE,
            message |-> serializeReportForSigning(unsigned),
            publicKey |-> unsigned.ephemeralPubKey]
      [] kind = "invalid" ->
           [parses |-> TRUE,
            message |-> serializeReportForSigning(unsigned),
            publicKey |-> ForeignKey]
      [] kind = "throws" -> Malformed

\* The PeerReport of peer number peer.
PeerReport(peer, score, kind) ==
    LET unsigned ==
          [id |-> peer, mediaItemId |-> "m1", peerEphemeralId |-> peer,
           confidenceScore |-> score, ephemeralPubKey |-> peer,
           timestamp |-> 0, peerAddress |-> peer, proximityLevel |-> "near"]
    IN  [id |-> unsigned.id, mediaItemId |-> unsigned.mediaItemId,
         peerEphemeralId |-> unsigned.peerEphemeralId,
         confidenceScore |-> unsigned.confidenceScore,
         signature |-> SignatureOfKind(kind, unsigned),
         ephemeralPubKey |-> unsigned.ephemeralPubKey,
         timestamp |-> unsigned.timestamp,
         peerAddress |-> unsigned.peerAddress,
         proximityLevel |-> unsigned.proximityLevel]

(* --------------------------- actions ----------------------------------- *)
\* A caller collects one more PeerReport for the aggregation.
ReceiveReport ==
    /\ aggResult.status = "none"
    /\ Len(reports) < maxBatch
    /\ \E score \in scorePool, sig \in sigPool :
         reports' = Append(reports,
                      PeerReport(Len(reports) + 1, score, sig))
    /\ UNCHANGED <<options, scorePool, sigPool, maxBatch, aggResult, meshVars, fpVars, tamperVars, orderVars, pubVars>>

\* A report already collected arrives once more under another identity:
\* id, peerEphemeralId, peerAddress and proximityLevel differ, the signed
\* fields, the signature and the key are those of the original.
RelayReport ==
    /\ aggResult.status = "none"
    /\ Len(reports) < maxBatch
    /\ \E i \in 1..Len(reports) :
         reports' = Append(reports,
                      [reports[i] EXCEPT !.id = Len(reports) + 1,
                                         !.peerEphemeralId = Len(reports) + 1,
                                         !.peerAddress = Len(reports) + 1,
                                         !.proximityLevel = "far"])
    /\ UNCHANGED <<options, scorePool, sigPool, maxBatch, aggResult, meshVars,
                   fpVars, tamperVars, orderVars, pubVars>>

\* aggregate(reports, options)
Aggregate ==
    /\ aggResult.status = "none"
    /\ aggResult' \in aggregate(reports, options)
    /\ UNCHANGED <<reports, options, scorePool, sigPool, maxBatch, meshVars, fpVars, tamperVars, orderVars, pubVars>>

\* The rearrangements of a list of n reports.
Rearrangements(n) ==
    {p \in [1..n -> 1..n] : \A i, j \in 1..n : i # j => p[i] # p[j]}

\* aggregate(reports', options) for the same reports in another order.
AggregateReordered ==
    /\ aggResult.status # "none"
    /\ permResult.status = "none"
    /\ \E p \in Rearrangements(Len(reports)) :
         /\ permReports' = [i \in 1..Len(reports) |-> reports[p[i]]]
         /\ permResult' \in aggregate(permReports', options)
    /\ UNCHANGED <<aggVars, meshVars, fpVars, tamperVars, pubVars>>

(* ------------------- MainsHumExtractor (mains-hum.ts) ------------------ *)
\* Durations are in tenths of a second; amplitudes of a fingerprint vector
\* in halves (0, 0.5, 1), so a product of two amplitudes is in quarters;
\* similarity thresholds in twentieths; extractionQuality in tenths.
DurationScale == 10
ProductScale == 4
ThresholdScale == 20
QualityScale == 10

\* DEFAULT_FINGERPRINT_CONFIG
DefaultFingerprintConfig ==
    [minDuration |-> 50, fftWindowSize |-> 4096, hopSize |-> 2048]

\* minDuration is exactly representable as a double when it is a multiple
\* of half a second (of the values used here).
ExactDouble(tenths) == tenths % 5 = 0

\* audioData.length < sampleRate * minDuration, as the doubles decide it:
\* the product is rounded when minDuration is not exactly representable,
\* so on exact equality either outcome is possible.
tooShort(length, rate, config) ==
    IF length * DurationScale = rate * config.minDuration
          /\ ~ExactDouble(config.minDuration)
    THEN {TRUE, FALSE}
    ELSE {length * DurationScale < rate * config.minDuration}

NoFingerprint ==
    [status |-> "none", processed |-> FALSE, vectorLength |-> 0,
     mainsFrequency |-> 0, duration |-> [num |-> 0, den |-> 1]]

\* extractFingerprintVector: numFrames, the length of the vector.
numFrames(length, config) ==
    (length - config.fftWindowSize) \div config.hopSize

\* extract(audioData, sampleRate): the length check comes first and throws;
\* new Float32Array(numFrames) throws a RangeError for a negative length.
extract(length, rate, config, short, mainsFrequency) ==
    IF short
    THEN [NoFingerprint EXCEPT !.status = "too_short"]
    ELSE IF numFrames(length, config) < 0
         THEN [NoFingerprint EXCEPT !.status = "range_error",
                                    !.processed = TRUE]
         ELSE [status |-> "ok", processed |-> TRUE,
               vectorLength |-> numFrames(length, config),
               mainsFrequency |-> mainsFrequency,
               duration |-> [num |-> length, den |-> rate]]

\* One term of the correlation: sum / count when count > 0, else 0.
CorrelationAt(vector1, vector2, offset) ==
    LET minLength == IF Len(vector1) < Len(vector2) THEN Len(vector1)
                     ELSE Len(vector2)
        hits == {i \in 1..minLength :
                    i + offset >= 1 /\ i + offset <= Len(vector2)}
        Terms == [i \in 1..minLength |->
                     IF i \in hits THEN vector1[i] * vector2[i + offset]
                     ELSE 0]
    IN  IF hits = {} THEN [sum |-> 0, count |-> 1]
        ELSE [sum |-> Sum(Terms), count |-> Cardinality(hits)]

\* correlation > maxCorrelation
CorrelationGreater(a, b) == a.sum * b.count > b.sum * a.count

\* The loop of crossCorrelate from offset on; best = <<>> stands for
\* maxCorrelation = -Infinity.
RECURSIVE crossCorrelateFrom(_, _, _, _, _)
crossCorrelateFrom(vector1, vector2, offset, maxOffset, best) ==
    IF offset > maxOffset THEN best
    ELSE LET correlation == CorrelationAt(vector1, vector2, offset)
             better == IF best = <<>> THEN TRUE
                       ELSE CorrelationGreater(correlation,
                                               best[1].maxCorrelation)
         IN  crossCorrelateFrom(vector1, vector2, offset + 1, maxOffset,
                 IF better
                 THEN <<[maxCorrelation |-> correlation, offset |-> offset]>>
                 ELSE best)

crossCorrelate(vector1, vector2) ==
    LET minLength == IF Len(vector1) < Len(vector2) THEN Len(vector1)
                     ELSE Len(vector2)
        maxOffset == minLength \div 2
    IN  crossCorrelateFrom(vector1, vector2, -maxOffset, maxOffset, <<>>)[1]

alignVectors(vector, offset) ==
    [i \in 1..Len(vector) |->
        IF i + offset >= 1 /\ i + offset <= Len(vector)
        THEN vector[i + offset] ELSE 0]

\* cosineSimilarity: dotProduct and norm1 * norm2; the value is
\* dotProduct / sqrt(norms), or 0 when norms = 0.
cosineSimilarity(vector1, vector2) ==
    LET minLength == IF Len(vector1) < Len(vector2) THEN Len(vector1)
                     ELSE Len(vector2)
        Dot == [i \in 1..minLength |-> vector1[i] * vector2[i]]
        Sq1 == [i \in 1..minLength |-> vector1[i] * vector1[i]]
        Sq2 == [i \in 1..minLength |-> vector2[i] * vector2[i]]
    IN  [dotProduct |-> Sum(Dot), norms |-> Sum(Sq1) * Sum(Sq2)]

\* (maxCorrelation + cosineSimilarity) / 2 against tn / td, as
\* -1 (below), 0 (exactly equal) or 1 (above).
SimilarityCmp(similarity, tn, td) ==
    LET c == similarity.correlation
        d == similarity.cosine
        \* cosine against a / b, b > 0
        a == 2 * ProductScale * tn * c.count - c.sum * td
        b == ProductScale * c.count * td
        Sign(x) == IF x > 0 THEN 1 ELSE IF x < 0 THEN -1 ELSE 0
    IN  IF d.norms = 0 THEN Sign(-a)
        ELSE IF a < 0 THEN 1
        ELSE Sign(d.dotProduct * d.dotProduct * b * b - a * a * d.norms)

\* similarity >= tn / td
SimilarityGe(similarity, tn, td) ==
    LET cmp == SimilarityCmp(similarity, tn, td)
    IN  IF cmp = 0 THEN {TRUE, FALSE} ELSE {cmp > 0}

ZeroSimilarity ==
    [correlation |-> [sum |-> 0, count |-> 1],
     cosine |-> [dotProduct |-> 0, norms |-> 0]]

\* determineConfidence: similarity * avgQuality against 0.7 and 0.4.
determineConfidence(similarity, quality1, quality2) ==
    IF quality1 + quality2 = 0 THEN {"low"}
    ELSE { IF high THEN "high" ELSE IF medium THEN "medium" ELSE "low" :
             high \in SimilarityGe(similarity, 14, quality1 + quality2),
             medium \in SimilarityGe(similarity, 8, quality1 + quality2) }

\* estimateProximity(similarity, Math.abs(offset))
estimateProximity(similarity, timeOffsetFrames) ==
    { IF same /\ timeOffsetFrames < 10 THEN "same_location"
      ELSE IF near /\ timeOffsetFrames < 50 THEN "nearby"
      ELSE IF far THEN "distant" ELSE "unknown" :
        same \in SimilarityGe(similarity, 17, ThresholdScale),
        near \in SimilarityGe(similarity, 12, ThresholdScale),
        far \in SimilarityGe(similarity, 6, ThresholdScale) }

NoComparison ==
    [status |-> "none", similarity |-> ZeroSimilarity, confidence |-> "low",
     offset |-> 0, proximityEstimate |-> "unknown"]

\* compare(fingerprint1, fingerprint2): the results it can return.
compare(fp1, fp2) ==
    IF fp1.mainsFrequency - fp2.mainsFrequency > 5
          \/ fp2.mainsFrequency - fp1.mainsFrequency > 5
    THEN {[status |-> "ok", similarity |-> ZeroSimilarity,
           confidence |-> "low", offset |-> 0,
           proximityEstimate |-> "distant"]}
    ELSE LET cc == crossCorrelate(fp1.vector, fp2.vector)
             alignedVector2 == alignVectors(fp2.vector, cc.offset)
             similarity ==
                 [correlation |-> cc.maxCorrelation,
                  cosine |-> cosineSimilarity(fp1.vector, alignedVector2)]
             absOffset == IF cc.offset < 0 THEN -cc.offset ELSE cc.offset
         IN  { [status |-> "ok", similarity |-> similarity,
                confidence |-> confidence, offset |-> cc.offset,
                proximityEstimate |-> proximityEstimate] :
                 confidence \in determineConfidence(similarity,
                                    fp1.extractionQuality,
                                    fp2.extractionQuality),
                 proximityEstimate \in estimateProximity(similarity,
                                                         absOffset) }

(* inputs *)
\* 2 s, 2.2 s and 5 s of audio at 44100 Hz and at 48000 Hz, and around;
\* recordings of fewer samples than fftWindowSize + hopSize
Recordings ==
    {0, 1, 4096, 4500, 6143, 6144, 88200, 96000, 97019, 97020, 97021,
     105599, 105600, 105601, 220499, 220500, 220501, 239999, 240000, 240001,
     300000}

SampleRates == {44100, 48000}

FingerprintConfigs ==
    {DefaultFingerprintConfig,
     [DefaultFingerprintConfig EXCEPT !.minDuration = 22],
     [DefaultFingerprintConfig EXCEPT !.minDuration = 1],
     [DefaultFingerprintConfig EXCEPT !.fftWindowSize = 262144]}

MainsFrequencies == {50, 60}

Amplitudes == {0, 1, 2}

Qualities == {5, 10}

RECURSIVE VectorsOfLength(_)
VectorsOfLength(n) ==
    IF n = 0 THEN {<<>>}
    ELSE {Append(v, a) : v \in VectorsOfLength(n - 1), a \in Amplitudes}

Vectors == UNION {VectorsOfLength(n) : n \in 1..MaxVector}

Fingerprints ==
    [vector : Vectors, mainsFrequency : MainsFrequencies,
     extractionQuality : Qualities]

(* actions *)
\* extract(audioData, sampleRate); detectMainsFrequency snaps to 50 or 60.
Extract ==
    /\ extractResult.status = "none"
    /\ \E short \in tooShort(audioLength, sampleRate, fpConfig),
          mainsFrequency \in MainsFrequencies :
         extractResult' = extract(audioLength, sampleRate, fpConfig, short,
                                  mainsFrequency)
    /\ UNCHANGED <<audioLength, sampleRate, fpConfig, fingerprint1,
                   fingerprint2, comparison, aggVars, meshVars, tamperVars, orderVars, pubVars>>

\* compare(fingerprint1, fingerprint2)
Compare ==
    /\ comparison.status = "none"
    /\ comparison' \in compare(fingerprint1, fingerprint2)
    /\ UNCHANGED <<audioLength, sampleRate, fpConfig, extractResult,
                   fingerprint1, fingerprint2, aggVars, meshVars, tamperVars, orderVars, pubVars>>

\* compare(fingerprint1, fingerprint1)
CompareWithItself ==
    /\ comparison.status = "none"
    /\ comparison' \in compare(fingerprint1, fingerprint1)
    /\ fingerprint2' = fingerprint1
    /\ UNCHANGED <<audioLength, sampleRate, fpConfig, extractResult,
                   fingerprint1, aggVars, meshVars, tamperVars, orderVars, pubVars>>

InitFpVars ==
    /\ audioLength = 0
    /\ sampleRate = 44100
    /\ fpConfig = DefaultFingerprintConfig
    /\ extractResult = NoFingerprint
    /\ fingerprint1 = [vector |-> <<2>>, mainsFrequency |-> 60,
                       extractionQuality |-> 10]
    /\ fingerprint2 = [vector |-> <<2>>, mainsFrequency |-> 60,
                       extractionQuality |-> 10]
    /\ comparison = NoComparison

(* ------------------ TamperDetectionAnalyzer (confidence.ts) ------------ *)
\* The fields of a ConfidenceAggregation that analyzeTampering reads;
\* aggregatedScore and standardDeviation are in hundredths.
Aggregation(score, level, reportCount, outlierCount, deviation) ==
    [aggregatedScore |-> score, consensusLevel |-> level,
     reportCount |-> reportCount, outlierCount |-> outlierCount,
     standardDeviation |-> deviation]

\* Variant: the test is written !(outlierRatio <= 0.3), which NaN passes.
outlierRatioHighOrNaN(a) ==
    \/ a.reportCount + a.outlierCount = 0
    \/ 10 * a.outlierCount
          > HighOutlierRatioTenths * (a.reportCount + a.outlierCount)

\* outlierCount / (reportCount + outlierCount) > 0.3; 0 / 0 is NaN, and
\* NaN > 0.3 is false.
outlierRatioHigh(a) ==
    /\ a.reportCount + a.outlierCount > 0
    /\ 10 * a.outlierCount
          > HighOutlierRatioTenths * (a.reportCount + a.outlierCount)

NoAnalysis ==
    [status |-> "none", tamperingLikely |-> FALSE, indicators |-> <<>>,
     riskLevel |-> "low"]

analyzeTampering(a) ==
    LET indicators ==
            (IF a.aggregatedScore * 100 < LowScorePct * Scale
             THEN <<"Very low confidence score">> ELSE <<>>)
            \o (IF a.consensusLevel = "low"
                THEN <<"Low peer consensus">> ELSE <<>>)
            \o (IF outlierRatioHigh(a)
                THEN <<"High outlier ratio">> ELSE <<>>)
            \o (IF a.standardDeviation * 100 > HighDeviationPct * Scale
                THEN <<"High variance in peer scores">> ELSE <<>>)
    IN  [status |-> "ok",
         tamperingLikely |-> Len(indicators) >= 2,
         indicators |-> indicators,
         riskLevel |-> IF Len(indicators) = 0 THEN "low"
                       ELSE IF Len(indicators) <= 2 THEN "medium"
                       ELSE "high"]

(* inputs *)
AggregationScores == {0, 29, 30, 31, 100}
ConsensusLevels == {"high", "medium", "low"}
Deviations == {0, 30, 31}

Aggregations ==
    {Aggregation(score, level, reportCount, outlierCount, deviation) :
        score \in AggregationScores, level \in ConsensusLevels,
        reportCount \in 0..MaxCount, outlierCount \in 0..MaxCount,
        deviation \in Deviations}

\* analyzeTampering(aggregation)
AnalyzeTampering ==
    /\ tamperAnalysis.status = "none"
    /\ tamperAnalysis' = analyzeTampering(aggregation)
    /\ UNCHANGED <<aggregation, aggVars, meshVars, fpVars, orderVars, pubVars>>

InitTamperVars ==
    /\ aggregation = Aggregation(100, "high", 0, 0, 0)
    /\ tamperAnalysis = NoAnalysis

\* standardDeviation of a result in hundredths, rounded up:
\* stdDev^2 = ss / n^3 in hundredths squared.
DeviationCeiling(stdDev) ==
    CHOOSE d \in 0..Scale :
        /\ d * d * stdDev.n * stdDev.n * stdDev.n >= stdDev.ss
        /\ d = 0
           \/ (d - 1) * (d - 1) * stdDev.n * stdDev.n * stdDev.n < stdDev.ss

\* The object aggregate returned, as analyzeTampering reads it:
\* aggregatedScore rounded down and standardDeviation rounded up to whole
\* hundredths, which changes none of its comparisons.  A value that is
\* exactly 0.3 may have been computed just to either side of it.
AsAggregations(result) ==
    LET score == result.aggregatedScore.num \div result.aggregatedScore.den
        deviation == DeviationCeiling(result.standardDeviation)
        scores ==
            IF result.aggregatedScore.num * 100
                  = LowScorePct * result.aggregatedScore.den * Scale
            THEN {score - 1, score} ELSE {score}
        deviations ==
            IF deviation * 100 = HighDeviationPct * Scale
               /\ deviation * deviation * result.standardDeviation.n
                     * result.standardDeviation.n * result.standardDeviation.n
                     = result.standardDeviation.ss
            THEN {deviation, deviation + 1} ELSE {deviation}
    IN  {Aggregation(s, result.consensusLevel, result.reportCount,
                     result.outlierCount, d) :
            s \in scores, d \in deviations}

\* const aggregation = await aggregate(...);
\* const tamperResult = this.tamperAnalyzer.analyzeTampering(aggregation)
AnalyzeAggregation ==
    /\ aggResult.status = "ok"
    /\ tamperAnalysis.status = "none"
    /\ \E a \in AsAggregations(aggResult) :
         /\ aggregation' = a
         /\ tamperAnalysis' = analyzeTampering(a)
    /\ UNCHANGED <<aggVars, meshVars, fpVars, orderVars, pubVars>>

(* ------------- MediaSharingFramework.publishMedia (orchestrator) ------- *)
PubOptionSets ==
    {[requestPeerVerification |-> verification, minPeerReports |-> minimum] :
        verification \in BOOLEAN, minimum \in {DefaultMinPeerReports, 2}}

NoPeerReports == [status |-> "none", reports |-> <<>>]

\* let aggregatedConfidence = 0.0
NoConfidence == [num |-> 0, den |-> 1]

\* let tamperAnalysis = { riskLevel: 'low', indicators: [] }
NoTamperAnalysis == [riskLevel |-> "low", indicators |-> <<>>]

NoPublication ==
    [status |-> "none", cause |-> "none", confidenceScore |-> NoConfidence,
     tamperAnalysis |-> NoTamperAnalysis]

\* Variant: the catch block rethrows.
rethrowVerificationError == "failed"

\* catch (error) { console.error(...) }: on to step 4.
catchVerificationError == "finish"

\* Steps 1 and 2: extract the fingerprint and upload the media, either of
\* which may throw; then the two locals are initialised.
PublishBegin ==
    /\ pubPc = "idle"
    /\ \E opts \in PubOptionSets, outcome \in {"ok", "extract", "upload"} :
         /\ pubOptions' = opts
         /\ IF outcome = "ok"
            THEN /\ pubPc' = IF opts.requestPeerVerification
                             THEN "collect" ELSE "finish"
                 /\ pubResult' = NoPublication
            ELSE /\ pubPc' = "failed"
                 /\ pubResult' = [NoPublication EXCEPT !.status = "error",
                                                       !.cause = outcome]
    /\ aggregatedConfidence' = NoConfidence
    /\ pubTamperAnalysis' = NoTamperAnalysis
    /\ peerReports' = NoPeerReports
    /\ UNCHANGED <<aggVars, meshVars, fpVars, tamperVars, orderVars>>

\* Step 3, first await: requestComparisons returns the reports collected,
\* or rejects.
PublishCollect ==
    /\ pubPc = "collect"
    /\ \/ /\ peerReports' = [status |-> "returned", reports |-> reports]
          /\ pubPc' = "verify"
       \/ /\ peerReports' = [status |-> "threw", reports |-> <<>>]
          /\ pubPc' = catchVerificationError
    /\ UNCHANGED <<pubOptions, aggregatedConfidence, pubTamperAnalysis,
                   pubResult, aggVars, meshVars, fpVars, tamperVars,
                   orderVars>>

\* Step 3, the rest: with enough reports aggregate({ minPeers:
\* minPeerReports }) and analyzeTampering; else only a warning.
PublishVerify ==
    /\ pubPc = "verify"
    /\ IF Len(peerReports.reports) >= pubOptions.minPeerReports
       THEN /\ options' = [DefaultOptions EXCEPT
                              !.minPeers = pubOptions.minPeerReports]
            /\ \E result \in aggregate(peerReports.reports, options') :
                 /\ aggResult' = result
                 /\ IF result.status = "ok"
                    THEN /\ aggregatedConfidence' = result.aggregatedScore
                         /\ \E a \in AsAggregations(result) :
                              /\ aggregation' = a
                              /\ tamperAnalysis' = analyzeTampering(a)
                         /\ pubTamperAnalysis' =
                              [riskLevel |-> tamperAnalysis'.riskLevel,
                               indicators |-> tamperAnalysis'.indicators]
                         /\ pubPc' = "finish"
                    ELSE /\ pubPc' = catchVerificationError
                         /\ UNCHANGED <<aggregatedConfidence,
                                        pubTamperAnalysis, tamperVars>>
       ELSE /\ pubPc' = "finish"
            /\ UNCHANGED <<options, aggResult, aggregatedConfidence,
                           pubTamperAnalysis, tamperVars>>
    /\ UNCHANGED <<reports, scorePool, sigPool, maxBatch, pubOptions,
                   peerReports, pubResult, meshVars, fpVars, orderVars>>

\* Steps 4 to 9: metadata, ring signature, anchor; the anchor submission
\* throws when no relayer succeeds; else the PublicationResult is built.
PublishFinish ==
    /\ pubPc = "finish"
    /\ \/ /\ pubPc' = "done"
          /\ pubResult' = [status |-> "ok", cause |-> "none",
                           confidenceScore |-> aggregatedConfidence,
                           tamperAnalysis |-> pubTamperAnalysis]
       \/ /\ pubPc' = "failed"
          /\ pubResult' = [NoPublication EXCEPT !.status = "error",
                                                !.cause = "anchor"]
    /\ UNCHANGED <<pubOptions, peerReports, aggregatedConfidence,
                   pubTamperAnalysis, aggVars, meshVars, fpVars, tamperVars,
                   orderVars>>

(* ------------------ MeshTransportManager (transport.ts) ---------------- *)
Transports == {"wifi_direct", "webrtc", "bluetooth"}

\* DEFAULT_MESH_CONFIG.enabledTransports
EnabledTransports == <<"webrtc", "bluetooth">>

PeerIds == 1..MaxPeers

\* config.maxConnections of a manager constructed with
\* { maxConnections: 2 } (the default is 10)
ConfiguredMaxConnections == 2

Range(f) == {f[i] : i \in DOMAIN f}

\* What starting discovery on one transport leaves pending: only
\* startWebRTCDiscovery calls setTimeout, the other two schedule nothing.
TimersStartedBy(transport) == IF transport = "webrtc" THEN 1 ELSE 0

RECURSIVE StartAll(_, _)
StartAll(transports, timers) ==
    IF transports = <<>> THEN timers
    ELSE StartAll(Tail(transports),
                  [timers EXCEPT ![Head(transports)] =
                       @ + TimersStartedBy(Head(transports))])

TotalTimers(timers) ==
    timers["wifi_direct"] + timers["webrtc"] + timers["bluetooth"]

\* One call into the manager: which method, on which peer, how it ended.
Call(op, peerId, outcome) ==
    [op |-> op, peerId |-> peerId, outcome |-> outcome]

NoCall == Call("none", 0, "none")

\* emit(event, data): the event type and the peer it is about.
Event(type, peerId) == [type |-> type, peerId |-> peerId]

\* A peer is stale when a whole staleness window (5 minutes) has gone by
\* since its lastSeen.
Stale(peerId) == lastSeen[peerId] < now

\* startDiscovery(): returns at once when already discovering.
StartDiscovery ==
    /\ ~isDiscovering
    /\ TotalTimers(StartAll(EnabledTransports, pendingTimers))
          + Len(discoveredPeers) <= MaxPeers
    /\ isDiscovering' = TRUE
    /\ pendingTimers' = StartAll(EnabledTransports, pendingTimers)
    /\ lastCall' = Call("startDiscovery", 0, "started")
    /\ emitted' = {}
    /\ UNCHANGED <<discoveredPeers, activePeers, responsive, lastSeen, now,
                   rcVars, handlerResult, aggVars, fpVars, tamperVars, orderVars, pubVars>>

\* startDiscovery() while discovering: nothing happens.
StartDiscoveryAgain ==
    /\ isDiscovering
    /\ lastCall' = Call("startDiscovery", 0, "noop")
    /\ emitted' = {}
    /\ UNCHANGED <<isDiscovering, discoveredPeers, activePeers,
                   pendingTimers, responsive, lastSeen, now, rcVars,
                   handlerResult, aggVars, fpVars, tamperVars, orderVars, pubVars>>

\* Variant: the event is emitted before the connection is looked up.
disconnectPeerEmitFirst(peerId, active) ==
    [outcome |-> IF peerId \in active THEN "closed" ELSE "noop",
     activePeers |-> active \ {peerId},
     events |-> {Event("peer-disconnected", peerId)}]

\* disconnectPeer(peerId): returns at once when there is no connection,
\* else deletes it and emits 'peer-disconnected'.
disconnectPeer(peerId, active) ==
    IF peerId \notin active
    THEN [outcome |-> "noop", activePeers |-> active, events |-> {}]
    ELSE [outcome |-> "closed", activePeers |-> active \ {peerId},
          events |-> {Event("peer-disconnected", peerId)}]

\* stopDiscovery(): clears the flag and disconnects every active peer;
\* the discovery timers are left alone.
StopDiscovery ==
    /\ isDiscovering' = FALSE
    /\ activePeers' = {}
    /\ lastCall' = Call("stopDiscovery", 0, "stopped")
    /\ emitted' = UNION {disconnectPeer(peerId, activePeers).events :
                            peerId \in activePeers}
    /\ UNCHANGED <<discoveredPeers, pendingTimers, responsive, lastSeen, now,
                   rcVars, handlerResult, aggVars, fpVars, tamperVars, orderVars, pubVars>>

\* The setTimeout callback of startWebRTCDiscovery: a peer with a fresh
\* random id and lastSeen = now is put into discoveredPeers and
\* 'peer-discovered' is emitted; isDiscovering is not consulted.  Whether
\* that peer will ever answer a request is fixed here.
DiscoveryTimerFires ==
    /\ pendingTimers["webrtc"] > 0
    /\ Len(discoveredPeers) < MaxPeers
    /\ pendingTimers' = [pendingTimers EXCEPT !["webrtc"] = @ - 1]
    /\ LET peerId == Len(discoveredPeers) + 1
       IN  /\ discoveredPeers' = Append(discoveredPeers, peerId)
           /\ lastSeen' = [lastSeen EXCEPT ![peerId] = now]
           /\ lastCall' = Call("discoveryTimer", peerId, "discovered")
           /\ emitted' = {Event("peer-discovered", peerId)}
           /\ \E answers \in BOOLEAN :
                responsive' = IF answers THEN responsive \cup {peerId}
                              ELSE responsive
    /\ UNCHANGED <<isDiscovering, activePeers, now, rcVars, handlerResult,
                   aggVars, fpVars, tamperVars, orderVars, pubVars>>

\* More than a staleness window of wall-clock time goes by.
StalenessWindowElapses ==
    /\ now < MaxClock
    /\ now' = now + 1
    /\ UNCHANGED <<isDiscovering, discoveredPeers, activePeers,
                   pendingTimers, responsive, lastSeen, lastCall, emitted,
                   rcVars, handlerResult, aggVars, fpVars, tamperVars, orderVars, pubVars>>

\* Variant: the connection object is stored before the peer is looked up.
connectToPeerStoreFirst(peerId, discovered, active) ==
    [outcome |-> IF peerId \in discovered THEN "connected" ELSE "error",
     activePeers |-> active \cup {peerId},
     events |-> IF peerId \in discovered
                THEN {Event("peer-connected", peerId)} ELSE {}]

\* connectToPeer(peerId): throws for a peer that is not in discoveredPeers,
\* before anything is touched; else connectWebRTC stores the connection
\* object and 'peer-connected' is emitted.
connectToPeer(peerId, discovered, active) ==
    IF peerId \notin discovered
    THEN [outcome |-> "error", activePeers |-> active, events |-> {}]
    ELSE [outcome |-> "connected", activePeers |-> active \cup {peerId},
          events |-> {Event("peer-connected", peerId)}]

ConnectToPeer(peerId) ==
    LET r == connectToPeer(peerId, Range(discoveredPeers), activePeers)
    IN  /\ activePeers' = r.activePeers
        /\ lastCall' = Call("connectToPeer", peerId, r.outcome)
        /\ emitted' = r.events
        /\ UNCHANGED <<isDiscovering, discoveredPeers, pendingTimers,
                       responsive, lastSeen, now, rcVars, handlerResult,
                       aggVars, fpVars, tamperVars, orderVars, pubVars>>

DisconnectPeer(peerId) ==
    LET r == disconnectPeer(peerId, activePeers)
    IN  /\ activePeers' = r.activePeers
        /\ lastCall' = Call("disconnectPeer", peerId, r.outcome)
        /\ emitted' = r.events
        /\ UNCHANGED <<isDiscovering, discoveredPeers, pendingTimers,
                       responsive, lastSeen, now, rcVars, handlerResult,
                       aggVars, fpVars, tamperVars, orderVars, pubVars>>

(* --------- FingerprintCoordinator.requestComparisons (transport.ts) ---- *)
\* Variant: no try/catch around one peer's iteration.
PropagatePeerError(idx) == [pc |-> "failed", idx |-> idx]

\* catch (error) { console.error(...) }: the loop goes on with the next peer.
CatchPeerError(idx) == [pc |-> "loop", idx |-> idx + 1]

\* const peers = getDiscoveredPeers(); const reports = [];
RcBegin ==
    /\ rcPc \in {"idle", "done"}
    /\ rcPeers' = discoveredPeers
    /\ rcIdx' = 1
    /\ rcReports' = <<>>
    /\ rcFailed' = {}
    /\ rcSignatures' = <<>>
    /\ rcPc' = "loop"
    /\ UNCHANGED <<transportVars, handlerResult, aggVars, fpVars, tamperVars, orderVars, pubVars>>

\* End of the loop: return reports.
RcReturn ==
    /\ rcPc = "loop"
    /\ rcIdx > Len(rcPeers)
    /\ rcPc' = "done"
    /\ UNCHANGED <<rcPeers, rcIdx, rcReports, rcFailed, rcSignatures,
                   transportVars, handlerResult, aggVars, fpVars, tamperVars, orderVars, pubVars>>

\* Head of one iteration: connectToPeer when there is no connection
\* (awaited), else go straight into sendFingerprintRequest, whose own
\* connection check then passes in the same turn.
RcIterate ==
    /\ rcPc = "loop"
    /\ rcIdx <= Len(rcPeers)
    /\ LET peerId == rcPeers[rcIdx]
           r == connectToPeer(peerId, Range(discoveredPeers), activePeers)
       IN  IF peerId \in activePeers
           THEN /\ rcPc' = "transmit"
                /\ UNCHANGED <<rcIdx, rcFailed, activePeers, lastCall,
                               emitted>>
           ELSE /\ activePeers' = r.activePeers
                /\ lastCall' = Call("connectToPeer", peerId, r.outcome)
                /\ emitted' = r.events
                /\ IF r.outcome = "connected"
                   THEN /\ rcPc' = "send"
                        /\ UNCHANGED <<rcIdx, rcFailed>>
                   ELSE /\ rcPc' = CatchPeerError(rcIdx).pc
                        /\ rcIdx' = CatchPeerError(rcIdx).idx
                        /\ rcFailed' = rcFailed \cup {peerId}
    /\ UNCHANGED <<rcPeers, rcReports, rcSignatures, isDiscovering,
                   discoveredPeers, pendingTimers, responsive, lastSeen, now,
                   handlerResult, aggVars, fpVars, tamperVars, orderVars, pubVars>>

\* sendFingerprintRequest after the awaited connect: throws when the
\* connection is gone, else builds and signs the message (awaits).
RcSend ==
    /\ rcPc = "send"
    /\ LET peerId == rcPeers[rcIdx]
       IN  IF peerId \in activePeers
           THEN /\ rcPc' = "transmit"
                /\ UNCHANGED <<rcIdx, rcFailed>>
           ELSE /\ rcPc' = CatchPeerError(rcIdx).pc
                /\ rcIdx' = CatchPeerError(rcIdx).idx
                /\ rcFailed' = rcFailed \cup {peerId}
    /\ UNCHANGED <<rcPeers, rcReports, rcSignatures, transportVars,
                   handlerResult, aggVars, fpVars, tamperVars, orderVars, pubVars>>

\* sendMessage: throws when the connection is gone, else returns the
\* promise that the response resolves.
RcTransmit ==
    /\ rcPc = "transmit"
    /\ LET peerId == rcPeers[rcIdx]
       IN  IF peerId \in activePeers
           THEN /\ rcPc' = "wait"
                /\ UNCHANGED <<rcIdx, rcFailed>>
           ELSE /\ rcPc' = CatchPeerError(rcIdx).pc
                /\ rcIdx' = CatchPeerError(rcIdx).idx
                /\ rcFailed' = rcFailed \cup {peerId}
    /\ UNCHANGED <<rcPeers, rcReports, rcSignatures, transportVars,
                   handlerResult, aggVars, fpVars, tamperVars, orderVars, pubVars>>

\* signature: new Uint8Array() of the response message
ResponseSignature == "empty"

\* The response resolves the promise, whatever has become of the
\* connection; sendFingerprintRequest returns its payload without looking
\* at the signature and the loop does reports.push(response.signedReport).
RcReceive ==
    /\ rcPc = "wait"
    /\ rcPeers[rcIdx] \in responsive
    /\ rcReports' = Append(rcReports, rcPeers[rcIdx])
    /\ rcSignatures' = Append(rcSignatures, ResponseSignature)
    /\ rcIdx' = rcIdx + 1
    /\ rcPc' = "loop"
    /\ UNCHANGED <<rcPeers, rcFailed, transportVars, handlerResult, aggVars, fpVars, tamperVars, orderVars, pubVars>>

(* ------ FingerprintCoordinator.handleFingerprintRequest (responder) ---- *)
MediaItemIds == {"m1", "m2"}

\* Math.random() * 0.5 + 0.5, in hundredths
MockScores == 50..99

NoResponse ==
    [status |-> "none", request |-> "m1", found |-> FALSE,
     mediaItemId |-> "m1", confidenceScore |-> 0]

\* What handleFingerprintRequest does with the callback's answer.
handleFingerprintRequest(mediaItemId, found, score) ==
    IF ~found
    THEN [status |-> "error", request |-> mediaItemId, found |-> found,
          mediaItemId |-> mediaItemId, confidenceScore |-> 0]
    ELSE [status |-> "response", request |-> mediaItemId, found |-> found,
          mediaItemId |-> mediaItemId, confidenceScore |-> score]

\* found: whether extractorCallback(fingerprintHash) returned a fingerprint.
HandleFingerprintRequest ==
    /\ \E mediaItemId \in MediaItemIds, found \in BOOLEAN,
          score \in MockScores :
         handlerResult' = handleFingerprintRequest(mediaItemId, found, score)
    /\ UNCHANGED <<transportVars, rcVars, aggVars, fpVars, tamperVars, orderVars, pubVars>>

InitOrderVars ==
    /\ permReports = <<>>
    /\ permResult = NoResult

InitPubVars ==
    /\ pubPc = "idle"
    /\ pubOptions = [requestPeerVerification |-> TRUE,
                     minPeerReports |-> DefaultMinPeerReports]
    /\ peerReports = NoPeerReports
    /\ aggregatedConfidence = NoConfidence
    /\ pubTamperAnalysis = NoTamperAnalysis
    /\ pubResult = NoPublication

InitMeshVars ==
    /\ isDiscovering = FALSE
    /\ discoveredPeers = <<>>
    /\ activePeers = {}
    /\ pendingTimers = [t \in Transports |-> 0]
    /\ responsive = {}
    /\ lastSeen = [peerId \in PeerIds |-> 0]
    /\ now = 0
    /\ lastCall = NoCall
    /\ emitted = {}
    /\ rcPc = "idle"
    /\ rcPeers = <<>>
    /\ rcIdx = 1
    /\ rcReports = <<>>
    /\ rcFailed = {}
    /\ rcSignatures = <<>>
    /\ handlerResult = NoResponse

InitAggVars ==
    /\ reports = <<>>
    /\ options = DefaultOptions
    /\ scorePool = GeneralScores
    /\ sigPool = SigOutcomes
    /\ maxBatch = MaxReports
    /\ aggResult = NoResult

InitMesh ==
    /\ InitMeshVars
    /\ InitAggVars
    /\ InitFpVars
    /\ InitTamperVars
    /\ InitOrderVars
    /\ InitPubVars

NextMesh ==
    \/ StartDiscovery
    \/ StartDiscoveryAgain
    \/ StopDiscovery
    \/ DiscoveryTimerFires
    \/ StalenessWindowElapses
    \/ \E peerId \in PeerIds : ConnectToPeer(peerId)
    \/ \E peerId \in PeerIds : DisconnectPeer(peerId)
    \/ RcBegin
    \/ RcReturn
    \/ RcIterate
    \/ RcSend
    \/ RcTransmit
    \/ RcReceive

SpecMesh == InitMesh /\ [][NextMesh]_vars

\* The responder role, which touches nothing of the transport's state.
SpecResponder == InitMesh /\ [][HandleFingerprintRequest]_vars

\* The event loop runs every ready continuation and fires every timer.
MeshFairness ==
    /\ WF_vars(DiscoveryTimerFires)
    /\ WF_vars(RcReturn)
    /\ WF_vars(RcIterate)
    /\ WF_vars(RcSend)
    /\ WF_vars(RcTransmit)
    /\ WF_vars(RcReceive)

SpecMeshFair == SpecMesh /\ MeshFairness

(* ------------------- aggregator specifications ------------------------ *)
InitAgg ==
    /\ InitMeshVars
    /\ InitOrderVars
    /\ InitPubVars
    /\ InitFpVars
    /\ InitTamperVars
    /\ reports = <<>>
    /\ options \in OptionSets
    /\ scorePool \in {GeneralScores, ConsensusScores}
    /\ sigPool = SigOutcomes
    /\ maxBatch = MaxReports
    /\ aggResult = NoResult

\* Peers that all sign correctly and report scores of one population.
InitCluster ==
    /\ InitMeshVars
    /\ InitOrderVars
    /\ InitPubVars
    /\ InitFpVars
    /\ InitTamperVars
    /\ reports = <<>>
    /\ options \in ClusterOptionSets
    /\ scorePool \in {ScenarioScores, ZeroClusterScores}
    /\ sigPool = {"valid"}
    /\ maxBatch = MaxClusterReports
    /\ aggResult = NoResult

NextAgg == ReceiveReport \/ Aggregate

SpecAgg == InitAgg /\ [][NextAgg]_vars

SpecCluster == InitCluster /\ [][NextAgg]_vars

\* aggregate followed by analyzeTampering on what it returned.
InitVerify ==
    /\ InitMeshVars
    /\ InitOrderVars
    /\ InitPubVars
    /\ InitFpVars
    /\ InitTamperVars
    /\ reports = <<>>
    /\ options \in OptionSets
    /\ scorePool \in {GeneralScores, LowScores}
    /\ sigPool = SigOutcomes
    /\ maxBatch = MaxReports
    /\ aggResult = NoResult

NextVerify == ReceiveReport \/ Aggregate \/ AnalyzeAggregation

SpecVerify == InitVerify /\ [][NextVerify]_vars

SpecClusterVerify == InitCluster /\ [][NextVerify]_vars

\* Reports that reach the aggregator under more than one identity.
NextRelay == ReceiveReport \/ RelayReport \/ Aggregate

SpecRelay == InitAgg /\ [][NextRelay]_vars

\* publishMedia, with the reports its requestComparisons call collects.
InitPublish ==
    /\ InitMeshVars
    /\ InitOrderVars
    /\ InitPubVars
    /\ InitFpVars
    /\ InitTamperVars
    /\ reports = <<>>
    /\ options = DefaultOptions
    /\ scorePool = GeneralScores
    /\ sigPool = {"valid", "invalid"}
    /\ maxBatch = MaxReports
    /\ aggResult = NoResult

NextPublish ==
    \/ ReceiveReport
    \/ PublishBegin
    \/ PublishCollect
    \/ PublishVerify
    \/ PublishFinish

SpecPublish == InitPublish /\ [][NextPublish]_vars

\* Two aggregate calls on the same reports, in two orders.
InitOrder ==
    /\ InitMeshVars
    /\ InitOrderVars
    /\ InitPubVars
    /\ InitFpVars
    /\ InitTamperVars
    /\ reports = <<>>
    /\ options \in ClusterOptionSets
    /\ scorePool = OrderScores
    /\ sigPool = {"valid"}
    /\ maxBatch = MaxReports
    /\ aggResult = NoResult

NextOrder == ReceiveReport \/ Aggregate \/ AggregateReordered

SpecOrder == InitOrder /\ [][NextOrder]_vars

(* ------------------- fingerprint specifications ------------------------ *)
InitExtract ==
    /\ InitMeshVars
    /\ InitOrderVars
    /\ InitPubVars
    /\ InitAggVars
    /\ InitTamperVars
    /\ audioLength \in Recordings
    /\ sampleRate \in SampleRates
    /\ fpConfig \in FingerprintConfigs
    /\ extractResult = NoFingerprint
    /\ fingerprint1 = [vector |-> <<2>>, mainsFrequency |-> 60,
                       extractionQuality |-> 10]
    /\ fingerprint2 = fingerprint1
    /\ comparison = NoComparison

SpecExtract == InitExtract /\ [][Extract]_vars

InitCompare ==
    /\ InitMeshVars
    /\ InitOrderVars
    /\ InitPubVars
    /\ InitAggVars
    /\ InitTamperVars
    /\ audioLength = 0
    /\ sampleRate = 44100
    /\ fpConfig = DefaultFingerprintConfig
    /\ extractResult = NoFingerprint
    /\ fingerprint1 \in Fingerprints
    /\ fingerprint2 \in Fingerprints
    /\ comparison = NoComparison

NextCompare == Compare \/ CompareWithItself

SpecCompare == InitCompare /\ [][NextCompare]_vars

(* ------------------- tamper analysis specification --------------------- *)
InitTamper ==
    /\ InitMeshVars
    /\ InitOrderVars
    /\ InitPubVars
    /\ InitAggVars
    /\ InitFpVars
    /\ aggregation \in Aggregations
    /\ tamperAnalysis = NoAnalysis

SpecTamper == InitTamper /\ [][AnalyzeTampering]_vars

(* ======================================================================= *)
(*                              Properties                                 *)
(* ======================================================================= *)
Returned == aggResult.status = "ok"
Failed == aggResult.status = "error"

ValidSignature(r) == VerifyOutcome(r) = "valid"
IsIncluded(ps) == ps.included

\* The reports that pass signature filtering, by the options in force.
Survivors ==
    IF options.verifySignatures THEN SelectSeq(reports, ValidSignature)
    ELSE reports

IncludedScores ==
    LET inc == SelectSeq(aggResult.peerScores, IsIncluded)
    IN  [i \in 1..Len(inc) |-> inc[i].score]

\* aggregatedScore is the mean of the scores marked included.
ScoreIsMeanOfIncluded ==
    IF IncludedScores = <<>>
    THEN aggResult.aggregatedScore.num = 0
    ELSE /\ aggResult.aggregatedScore.num = Sum(IncludedScores)
         /\ aggResult.aggregatedScore.den = Len(IncludedScores)

AllSignaturesValid == \A i \in 1..Len(reports) : ValidSignature(reports[i])

DefaultThreshold == options.outlierThreshold = DefaultOutlierThresholdHalves

\* No surviving score has a z-score exactly equal to the threshold.
NoZScoreTie ==
    LET scores == [i \in 1..Len(Survivors) |-> Survivors[i].confidenceScore]
        mean   == computeMean(scores)
    IN  TieScores(scores, mean, computeStdDev(scores, mean),
                  options.outlierThreshold) = {}

(* ----------------------------------------------------------------------- *)
\* C1: aggregate fails with the insufficient-reports error, naming the
\* count and the required minimum and producing no aggregation, exactly
\* when the list passed in has fewer than minPeers reports, whatever
\* signature filtering would keep.
C1_InsufficientReports ==
    aggResult.status # "none" =>
        /\ Failed <=> Len(reports) < options.minPeers
        /\ Failed => /\ aggResult.count = Len(reports)
                     /\ aggResult.required = options.minPeers
                     /\ aggResult.peerScores = <<>>
                     /\ aggResult.reportCount = 0

\* Two reports under the default minPeers = 3.
C1_Witness ==
    /\ Failed
    /\ Len(reports) = 2
    /\ options = DefaultOptions

(* ----------------------------------------------------------------------- *)
IsScenario ==
    /\ Len(reports) = 5
    /\ \A s \in ScenarioScores :
         Cardinality({i \in 1..Len(reports) :
                        reports[i].confidenceScore = s}) = 1
    /\ AllSignaturesValid
    /\ DefaultThreshold

\* C2: in the scenario {0.95, 0.94, 0.96, 0.05, 0.97} the 0.05
\* report is the one outlier, aggregatedScore is the mean of the other four
\* (3.82 / 4) and consensusLevel is high.
C2_ScenarioExcludesOutlier ==
    (Returned /\ IsScenario) =>
        /\ aggResult.outlierCount = 1
        /\ \A i \in 1..Len(aggResult.peerScores) :
             aggResult.peerScores[i].included
                <=> aggResult.peerScores[i].score # 5
        /\ aggResult.aggregatedScore.num * 4
              = 382 * aggResult.aggregatedScore.den
        /\ aggResult.consensusLevel = "high"

(* ----------------------------------------------------------------------- *)
\* One report of 0.0, every other report near 0.95, all signatures valid,
\* default outlierThreshold.
OneZeroAmongCluster ==
    /\ Cardinality({i \in 1..Len(reports) :
                      reports[i].confidenceScore = 0}) = 1
    /\ \A i \in 1..Len(reports) :
         reports[i].confidenceScore \in ZeroClusterScores
    /\ AllSignaturesValid
    /\ DefaultThreshold

\* The 0.0 report is marked excluded and the trimmed mean leaves it out.
ZeroReportExcluded ==
    /\ \A i \in 1..Len(aggResult.peerScores) :
         aggResult.peerScores[i].score = 0
            => ~aggResult.peerScores[i].included
    /\ ScoreIsMeanOfIncluded

\* C3: with at least 5 reports, one of 0.0 and the others near 0.95, the
\* 0.0 report is flagged and left out of aggregatedScore (on populations
\* where no z-score lies exactly on the threshold, so that rounding plays
\* no part in the outcome).
C3_ZeroReportExcluded ==
    (Returned /\ OneZeroAmongCluster /\ Len(reports) >= 5 /\ NoZScoreTie)
        => ZeroReportExcluded

(* ----------------------------------------------------------------------- *)
\* C4: when all signature-valid reports lie within 0.02 of each other,
\* aggregate returns outlierCount 0, and consensusLevel high if their mean
\* is at least 0.7 (on populations where no z-score lies exactly on the
\* threshold, so that rounding plays no part in the outcome).
C4_TightClusterNoOutlier ==
    LET scores == [i \in 1..Len(reports) |-> reports[i].confidenceScore]
    IN  (/\ Returned
         /\ AllSignaturesValid
         /\ NoZScoreTie
         /\ \A i, j \in 1..Len(reports) : scores[i] - scores[j] <= 2)
        => /\ aggResult.outlierCount = 0
           /\ Sum(scores) * 100 >= HighScorePct * Len(scores) * Scale
                 => aggResult.consensusLevel = "high"

(* ----------------------------------------------------------------------- *)
\* C5: when every input score is in [0,1], so is aggregatedScore, whatever
\* signature filtering and outlier rejection remove.
C5_ScoreInUnitInterval ==
    (/\ Returned
     /\ \A i \in 1..Len(reports) :
          /\ 0 <= reports[i].confidenceScore
          /\ reports[i].confidenceScore <= Scale)
    => /\ 0 <= aggResult.aggregatedScore.num
       /\ aggResult.aggregatedScore.num
             <= aggResult.aggregatedScore.den * Scale

\* An aggregation that rejected an outlier and kept a non-zero mean.
C5_Witness ==
    /\ Returned
    /\ aggResult.outlierCount >= 1
    /\ aggResult.aggregatedScore.num > 0

(* ----------------------------------------------------------------------- *)
\* C6: with verifySignatures on, reports whose verification returns false
\* or throws are dropped, aggregate still returns, and peerScores, the
\* counts and the score are those of exactly the remaining reports.
C6_InvalidSignaturesDropped ==
    (/\ aggResult.status # "none"
     /\ options.verifySignatures
     /\ Len(reports) >= options.minPeers)
    => LET kept == SelectSeq(reports, ValidSignature)
       IN  /\ Returned
           /\ Len(aggResult.peerScores) = Len(kept)
           /\ \A i \in 1..Len(kept) :
                /\ aggResult.peerScores[i].peerId = kept[i].peerEphemeralId
                /\ aggResult.peerScores[i].score = kept[i].confidenceScore
           /\ aggResult.reportCount + aggResult.outlierCount = Len(kept)
           /\ aggResult.reportCount = Len(IncludedScores)
           /\ ScoreIsMeanOfIncluded

\* One corrupted report among four: the aggregation is over the other three.
C6_Witness ==
    /\ Returned
    /\ options.verifySignatures
    /\ Len(reports) = 4
    /\ Cardinality({i \in 1..4 : ~ValidSignature(reports[i])}) = 1
    /\ Len(aggResult.peerScores) = 3

(* ----------------------------------------------------------------------- *)
NoDuplicates(seq) ==
    \A i, j \in 1..Len(seq) : seq[i] = seq[j] => i = j

\* C7: requestComparisons never throws because of a peer; when it returns,
\* every peer of its snapshot either ended in the catch block or has
\* exactly one report in the result, and nobody else has one.
C7_PeerFailuresIsolated ==
    /\ rcPc # "failed"
    /\ rcPc = "done" =>
         /\ NoDuplicates(rcReports)
         /\ Range(rcReports) \cap rcFailed = {}
         /\ Range(rcReports) \cup rcFailed = Range(rcPeers)

\* A call that returned with one peer failed and another peer's report.
C7_Witness ==
    /\ rcPc = "done"
    /\ rcFailed # {}
    /\ rcReports # <<>>

(* ----------------------------------------------------------------------- *)
RcRunning == rcPc \in {"loop", "send", "transmit", "wait"}

C9_NegativeReport ==
    (handlerResult.status # "none" /\ ~handlerResult.found) =>
        /\ handlerResult.status = "response"
        /\ handlerResult.confidenceScore = 0
        /\ handlerResult.mediaItemId = handlerResult.request

(* ----------------------------------------------------------------------- *)
\* C10: whatever sequence of stopDiscovery and startDiscovery calls is
\* made, at most one discovery timer is pending per transport.
C10_OneLoopPerTransport ==
    \A t \in Transports : pendingTimers[t] <= 1

(* ----------------------------------------------------------------------- *)
\* C11: between a stopDiscovery and the next startDiscovery no discovery
\* timer fires: nothing is inserted into or refreshed in discoveredPeers
\* and no 'peer-discovered' event is emitted.
C11_StopCancelsDiscovery ==
    [][~isDiscovering =>
          /\ discoveredPeers' = discoveredPeers
          /\ lastSeen' = lastSeen
          /\ emitted' # emitted =>
                \A e \in emitted' : e.type # "peer-discovered"]_vars

(* ----------------------------------------------------------------------- *)
\* The request of requestComparisons is outstanding and its peer has no
\* connection any more.
RequestOutlivesConnection ==
    /\ rcPc = "wait"
    /\ rcPeers[rcIdx] \notin activePeers

\* C12: a request whose peer has been disconnected completes as a failure:
\* no response of that peer is delivered to the caller, and the request
\* does not stay outstanding.
C12_DisconnectCancelsRequest ==
    /\ [][RequestOutlivesConnection => rcReports' = rcReports]_vars
    /\ (RequestOutlivesConnection ~> rcPc # "wait")

(* ----------------------------------------------------------------------- *)
\* The registry, the connections, the discovery flag and the timers.
managerState ==
    <<isDiscovering, discoveredPeers, activePeers, pendingTimers, lastSeen>>

\* C13: disconnectPeer(p) without a connection to p, a disconnectPeer(p)
\* straight after a disconnectPeer(p), and a stopDiscovery straight after
\* a stopDiscovery change no state and emit no event; a call that closes
\* connections emits 'peer-disconnected' once for each of them.
C13_Idempotent ==
    [][/\ \A peerId \in PeerIds :
            DisconnectPeer(peerId) =>
               /\ (peerId \notin activePeers
                      \/ lastCall = Call("disconnectPeer", peerId, "noop")
                      \/ lastCall = Call("disconnectPeer", peerId, "closed"))
                     => (UNCHANGED managerState /\ emitted' = {})
               /\ peerId \in activePeers
                     => emitted' = {Event("peer-disconnected", peerId)}
       /\ StopDiscovery =>
            /\ lastCall.op = "stopDiscovery"
                  => (UNCHANGED managerState /\ emitted' = {})
            /\ emitted' = {Event("peer-disconnected", peerId) :
                              peerId \in activePeers}]_vars

\* disconnectPeer was called for a known peer that had no connection, while
\* another peer had one.
C13_Witness ==
    /\ lastCall.op = "disconnectPeer"
    /\ lastCall.outcome = "noop"
    /\ lastCall.peerId \in Range(discoveredPeers)
    /\ activePeers # {}

(* ----------------------------------------------------------------------- *)
\* C14: a connectToPeer that failed reported an error, added no entry for
\* its peer to activePeers and emitted no event; it fails for every peer
\* that is not in discoveredPeers.
C14_FailedConnectLeavesNoEntry ==
    lastCall.op = "connectToPeer" =>
        /\ lastCall.outcome = "error"
              => /\ lastCall.peerId \notin activePeers
                 /\ emitted = {}
        /\ lastCall.peerId \notin Range(discoveredPeers)
              => lastCall.outcome = "error"

\* connectToPeer failed for an unknown peer while another peer was
\* connected.
C14_Witness ==
    /\ lastCall.op = "connectToPeer"
    /\ lastCall.outcome = "error"
    /\ lastCall.peerId \notin Range(discoveredPeers)
    /\ activePeers # {}

(* ----------------------------------------------------------------------- *)
\* C15: every report requestComparisons has collected came in a response
\* message whose signature verified.
C15_ResponsesVerified ==
    \A i \in 1..Len(rcSignatures) : rcSignatures[i] = "valid"

(* ----------------------------------------------------------------------- *)
\* C16: the peers requestComparisons takes from getDiscoveredPeers are
\* live, and it starts no connect attempt and no request for a stale peer.
C16_OnlyLivePeersSolicited ==
    [][/\ (rcPc \in {"idle", "done"} /\ rcPc' = "loop")
             => \A i \in 1..Len(rcPeers') : ~Stale(rcPeers'[i])
       /\ (rcPc = "loop" /\ rcPc' \in {"send", "transmit"})
             => ~Stale(rcPeers[rcIdx])]_vars

(* ----------------------------------------------------------------------- *)
\* What normalize returns for a vector that is not constant: the smallest
\* amplitude is 0 and the largest is 1.
MinMaxNormalized(vector) ==
    /\ 0 \in Range(vector)
    /\ 2 \in Range(vector)

\* C17: comparing a fingerprint, its vector normalized to [0,1], with
\* itself gives similarity >= 0.95 and proximityEstimate 'same_location'.
C17_SelfComparison ==
    (/\ comparison.status = "ok"
     /\ fingerprint2 = fingerprint1
     /\ MinMaxNormalized(fingerprint1.vector))
        => /\ SimilarityCmp(comparison.similarity, 19, ThresholdScale) >= 0
           /\ comparison.proximityEstimate = "same_location"

(* ----------------------------------------------------------------------- *)
\* C18: extract fails with the too-short error exactly when
\* audioLength / sampleRate < minDuration, and then no signal processing
\* has been done.
C18_TooShortAudio ==
    extractResult.status # "none" =>
        /\ extractResult.status = "too_short"
              <=> audioLength * DurationScale
                     < sampleRate * fpConfig.minDuration
        /\ extractResult.status = "too_short" => ~extractResult.processed

(* ----------------------------------------------------------------------- *)
\* cv < p/10 for the given scores, as -1 (cv below), 0 (exactly equal) or
\* 1 (cv above); cv is 1 when the mean is not positive.
CvCmp(scores, p) ==
    LET mean == computeMean(scores)
        stdDev == computeStdDev(scores, mean)
        lhs == 100 * stdDev.ss
        rhs == p * p * stdDev.n * mean.num * mean.num
    IN  IF mean.num <= 0 THEN 1
        ELSE IF lhs < rhs THEN -1 ELSE IF lhs = rhs THEN 0 ELSE 1

\* aggregatedScore against p/100
ScoreCmp(p) ==
    LET lhs == aggResult.aggregatedScore.num * 100
        rhs == p * aggResult.aggregatedScore.den * Scale
    IN  IF lhs < rhs THEN -1 ELSE IF lhs = rhs THEN 0 ELSE 1

\* The level the thresholds give for a coefficient of variation taken
\* from the given scores.
LevelFor(scores) ==
    IF Len(scores) > 0 /\ CvCmp(scores, HighCvTenths) < 0
          /\ ScoreCmp(HighScorePct) >= 0
    THEN "high"
    ELSE IF Len(scores) > 0 /\ CvCmp(scores, MediumCvTenths) < 0
               /\ ScoreCmp(MediumScorePct) >= 0
         THEN "medium"
         ELSE "low"

\* No quantity lies exactly on a threshold, where rounding would decide.
OffThresholds(scores) ==
    /\ Len(scores) > 0 =>
          /\ CvCmp(scores, HighCvTenths) # 0
          /\ CvCmp(scores, MediumCvTenths) # 0
    /\ ScoreCmp(HighScorePct) # 0
    /\ ScoreCmp(MediumScorePct) # 0

AllScores == [i \in 1..Len(aggResult.peerScores) |->
                 aggResult.peerScores[i].score]

\* C19 as stated: consensusLevel follows the thresholds with the
\* coefficient of variation of all signature-valid scores, the one the
\* reported standardDeviation belongs to.
C19_Original ==
    (Returned /\ OffThresholds(AllScores))
        => /\ aggResult.standardDeviation
                 = computeStdDev(AllScores, computeMean(AllScores))
           /\ aggResult.consensusLevel = LevelFor(AllScores)

\* C19 (amended): consensusLevel follows the thresholds with the
\* coefficient of variation of the included scores, those left after
\* outlier rejection, and is low when no score is included.
C19_ConsensusOfIncluded ==
    (Returned /\ OffThresholds(IncludedScores))
        => aggResult.consensusLevel = LevelFor(IncludedScores)

\* An outlier was rejected and the two coefficients of variation give
\* different levels.
C19_Witness ==
    /\ Returned
    /\ aggResult.outlierCount > 0
    /\ OffThresholds(IncludedScores)
    /\ OffThresholds(AllScores)
    /\ aggResult.consensusLevel = "high"
    /\ LevelFor(AllScores) # "high"

(* ----------------------------------------------------------------------- *)
\* The number of conditions of analyzeTampering that hold of aggregation.
IndicatorCount ==
    (IF aggregation.aggregatedScore < 30 THEN 1 ELSE 0)
    + (IF aggregation.consensusLevel = "low" THEN 1 ELSE 0)
    + (IF aggregation.reportCount + aggregation.outlierCount > 0
          /\ 10 * aggregation.outlierCount
                > 3 * (aggregation.reportCount + aggregation.outlierCount)
       THEN 1 ELSE 0)
    + (IF aggregation.standardDeviation > 30 THEN 1 ELSE 0)

\* C20: analyzeTampering returns for every aggregation, the one with no
\* reports included; it lists one indicator for each condition that
\* holds; riskLevel is low for none, medium for one or two, high for more;
\* tamperingLikely is true from two indicators on.
C20_TamperAnalysis ==
    tamperAnalysis.status # "none" =>
        /\ tamperAnalysis.status = "ok"
        /\ Len(tamperAnalysis.indicators) = IndicatorCount
        /\ tamperAnalysis.riskLevel =
              (IF IndicatorCount = 0 THEN "low"
               ELSE IF IndicatorCount <= 2 THEN "medium" ELSE "high")
        /\ tamperAnalysis.tamperingLikely <=> IndicatorCount >= 2

\* An aggregation of no reports at all, with two indicators.
C20_Witness ==
    /\ tamperAnalysis.status = "ok"
    /\ aggregation.reportCount + aggregation.outlierCount = 0
    /\ IndicatorCount = 2
    /\ tamperAnalysis.tamperingLikely

(* ----------------------------------------------------------------------- *)
\* C21: aggregate does not depend on the order of the reports: for a
\* rearrangement of the same list it gives the same outcome, the same
\* aggregatedScore, reportCount, outlierCount, standardDeviation and
\* consensusLevel, and every report the same included/excluded decision.
C21_OrderIndependent ==
    permResult.status # "none" =>
        /\ permResult.status = aggResult.status
        /\ permResult.aggregatedScore = aggResult.aggregatedScore
        /\ permResult.reportCount = aggResult.reportCount
        /\ permResult.outlierCount = aggResult.outlierCount
        /\ permResult.standardDeviation = aggResult.standardDeviation
        /\ permResult.consensusLevel = aggResult.consensusLevel
        /\ \A i \in 1..Len(aggResult.peerScores),
              j \in 1..Len(permResult.peerScores) :
             aggResult.peerScores[i].peerId = permResult.peerScores[j].peerId
               => aggResult.peerScores[i].included
                    = permResult.peerScores[j].included

(* ----------------------------------------------------------------------- *)
\* C22: in every aggregation result peerScores has exactly one entry per
\* report that survived signature filtering, in input order; the entries
\* marked included number reportCount, the others number outlierCount, and
\* aggregatedScore is the mean of the scores of the included entries.
C22_PeerScoresAudit ==
    Returned =>
        /\ Len(aggResult.peerScores) = Len(Survivors)
        /\ \A i \in 1..Len(Survivors) :
             /\ aggResult.peerScores[i].peerId = Survivors[i].peerEphemeralId
             /\ aggResult.peerScores[i].score = Survivors[i].confidenceScore
        /\ Count(aggResult.peerScores, IsIncluded) = aggResult.reportCount
        /\ Len(aggResult.peerScores) - Count(aggResult.peerScores, IsIncluded)
              = aggResult.outlierCount
        /\ ScoreIsMeanOfIncluded

\* A result with an excluded report and included ones.
C22_Witness ==
    /\ Returned
    /\ aggResult.outlierCount >= 1
    /\ aggResult.reportCount >= 2
    /\ Len(aggResult.peerScores) = Len(reports)

(* ----------------------------------------------------------------------- *)
\* C23: for every peer the 'peer-connected' and 'peer-disconnected' events
\* alternate, starting with 'peer-connected': a call emits 'peer-connected'
\* only for a peer that has no connection at that moment (so no connection
\* object is replaced without being closed) and 'peer-disconnected' only
\* for a peer that has one.
C23_EventsAlternate ==
    [][ <<lastCall, emitted>>' # <<lastCall, emitted>> =>
          \A peerId \in PeerIds :
             /\ Event("peer-connected", peerId) \in emitted'
                   => peerId \notin activePeers
             /\ Event("peer-disconnected", peerId) \in emitted'
                   => peerId \in activePeers ]_vars

(* ----------------------------------------------------------------------- *)
\* C25: the number of simultaneously active peer connections never
\* exceeds config.maxConnections, whatever connectToPeer and
\* requestComparisons calls are made.
C25_ConnectionLimit ==
    Cardinality(activePeers) <= ConfiguredMaxConnections

(* ----------------------------------------------------------------------- *)
\* C24: every fingerprint a successful extract returns has a vector of
\* at least one frame and a duration of at least minDuration, for every
\* sample rate, window size and hop size.
C24_FingerprintInvariant ==
    extractResult.status = "ok" =>
        /\ extractResult.vectorLength > 0
        /\ extractResult.duration.num * DurationScale
              >= fpConfig.minDuration * extractResult.duration.den

(* ----------------------------------------------------------------------- *)
\* C26: minPeers is enforced on the number of reports passed in only: a
\* list of at least minPeers reports is aggregated however few of them
\* survive signature verification, and when none survives the result has
\* aggregatedScore 0, reportCount 0, outlierCount 0 and consensusLevel
\* 'low'.
C26_MinPeersOnInputOnly ==
    /\ (aggResult.status # "none" /\ Len(reports) >= options.minPeers) =>
          /\ Returned
          /\ aggResult.reportCount + aggResult.outlierCount = Len(Survivors)
    /\ (Returned /\ Survivors = <<>>) =>
          /\ aggResult.aggregatedScore.num = 0
          /\ aggResult.reportCount = 0
          /\ aggResult.outlierCount = 0
          /\ aggResult.consensusLevel = "low"

\* Three reports under minPeers = 3, none with a signature that verifies.
C26_Witness ==
    /\ Returned
    /\ Len(reports) = 3
    /\ options.minPeers = 3
    /\ Survivors = <<>>
    /\ aggResult.reportCount + aggResult.outlierCount < options.minPeers

(* ----------------------------------------------------------------------- *)
\* The aggregation analysed is the one aggregate returned.
Analysed == aggResult.status = "ok" /\ tamperAnalysis.status = "ok"

\* C27: an aggregation returned by aggregate with aggregatedScore < 0.3
\* has consensusLevel 'low'; analyzeTampering applied to it lists at least
\* two indicators, says tampering is likely and gives a riskLevel other
\* than 'low'.
C27_LowScoreIsFlagged ==
    /\ (Returned /\ aggResult.aggregatedScore.num * 100
                      < LowScorePct * aggResult.aggregatedScore.den * Scale)
          => aggResult.consensusLevel = "low"
    /\ (Analysed /\ aggregation.aggregatedScore * 100 < LowScorePct * Scale)
          => /\ aggregation.consensusLevel = "low"
             /\ Len(tamperAnalysis.indicators) >= 2
             /\ tamperAnalysis.tamperingLikely
             /\ tamperAnalysis.riskLevel # "low"

\* Three peers agree on a poor match (0.2 each).
C27_Witness ==
    /\ Analysed
    /\ aggResult.reportCount >= 3
    /\ aggResult.standardDeviation.ss = 0
    /\ aggregation.aggregatedScore = 20
    /\ Len(tamperAnalysis.indicators) = 2

(* ----------------------------------------------------------------------- *)
\* C28: with the default outlierThreshold 2.0 at most a quarter of the
\* signature-valid reports are outliers, so the outlier-ratio indicator
\* of analyzeTampering does not fire on such an aggregation.
C28_OutlierQuarter ==
    /\ (Returned /\ DefaultThreshold) =>
          4 * aggResult.outlierCount
             <= aggResult.reportCount + aggResult.outlierCount
    /\ (Analysed /\ DefaultThreshold) =>
          \A i \in 1..Len(tamperAnalysis.indicators) :
             tamperAnalysis.indicators[i] # "High outlier ratio"

\* Six reports, one of them excluded, analysed.
C28_Witness ==
    /\ Analysed
    /\ DefaultThreshold
    /\ aggResult.outlierCount = 1
    /\ aggResult.reportCount = 5
    /\ aggregation.outlierCount = 1

(* ----------------------------------------------------------------------- *)
\* The fields crypto.verify is given, directly or through the message.
SameSignedFields(r1, r2) ==
    /\ r1.mediaItemId = r2.mediaItemId
    /\ r1.confidenceScore = r2.confidenceScore
    /\ r1.timestamp = r2.timestamp
    /\ r1.signature = r2.signature
    /\ r1.ephemeralPubKey = r2.ephemeralPubKey

\* The report has an entry in peerScores (peerEphemeralId is unique here).
Kept(report) ==
    \E k \in 1..Len(aggResult.peerScores) :
        aggResult.peerScores[k].peerId = report.peerEphemeralId

VerificationFailed ==
    /\ pubOptions.requestPeerVerification
    /\ \/ peerReports.status = "threw"
       \/ /\ peerReports.status = "returned"
          /\ Len(peerReports.reports) < pubOptions.minPeerReports
       \/ /\ peerReports.status = "returned"
          /\ aggResult.status = "error"

====
